---------------------------- MODULE Spec2Model ----------------------------
(***************************************************************************)
(* A model of tools/experiment.py: letter-frequency statistics over a word *)
(* list, the three guess scorers built on them, and the Matcher that       *)
(* filters the candidate list from one (guess, response) pair.             *)
(*                                                                         *)
(* Words, guesses and responses are sequences of one-character strings.    *)
(* A Python index i is position i + 1 of a sequence here; the position     *)
(* reported in an error message is converted back to the Python index.     *)
(* Python floats are modelled by exact fractions [n, d] in lowest terms.   *)
(* Every comparison the code makes on them is a comparison with 0 of a     *)
(* product or difference of quotients count / norm, which rounding does    *)
(* not change the sign of (division by a common norm is monotone).         *)
(***************************************************************************)
EXTENDS Integers, Sequences, FiniteSets

\* ------------------------------------------------------------------ bounds

\* Length of the words of the corpus, and of every guess.
WordLen == 2

\* Largest number of words in the corpus read at start-up.
MaxWords == 2

\* The alphabet of the bounded model.
Letters == {"a", "b"}

\* The characters a response may hold: the three the Matcher knows and one
\* it does not.
ResponseChars == {"+", "!", "-", "?"}

\* --------------------------------------------------------------- fractions

Abs(x) == IF x < 0 THEN -x ELSE x

Min(x, y) == IF x <= y THEN x ELSE y

RECURSIVE GCD(_, _)
GCD(x, y) == IF y = 0 THEN x ELSE GCD(y, x % y)

\* The quotient n / d (d > 0) in lowest terms.
Frac(n, d) == LET g == GCD(Abs(n), d) IN [n |-> n \div g, d |-> d \div g]

Zero == [n |-> 0, d |-> 1]

One == [n |-> 1, d |-> 1]

FAdd(x, y) == Frac(x.n * y.d + y.n * x.d, x.d * y.d)

FSub(x, y) == Frac(x.n * y.d - y.n * x.d, x.d * y.d)

FMul(x, y) == Frac(x.n * y.n, x.d * y.d)

FDivInt(x, k) == Frac(x.n, x.d * k)

FLe(x, y) == x.n * y.d <= y.n * x.d

FMax(x, y) == IF FLe(x, y) THEN y ELSE x

\* ------------------------------------------------------------------- words

AllWords == [1..WordLen -> Letters]

RECURSIVE WordLess(_, _, _)
\* Dictionary order on two words of equal length, from position i on.
WordLess(v, w, i) ==
    IF i > Len(v) THEN FALSE
    ELSE IF v[i] # w[i] THEN (v[i] = "a")
    ELSE WordLess(v, w, i + 1)

\* What read_words can return: the lines of the dictionary file that have
\* the configured length, here distinct words in dictionary order.
Corpora ==
    { ws \in UNION { [1..k -> AllWords] : k \in 0..MaxWords } :
        \A i \in 1..(Len(ws) - 1) : WordLess(ws[i], ws[i + 1], 1) }

\* A guess is a word of the list read: the moves print_scores proposes are
\* drawn from it.
Guesses(ws) == { ws[k] : k \in 1..Len(ws) }

Responses ==
    UNION { [1..k -> ResponseChars] : k \in (WordLen - 1)..(WordLen + 1) }

\* set(word)
LetterSet(word) == { word[i] : i \in 1..Len(word) }

\* dict.get(key, 0.0)
Get(table, key) == IF key \in DOMAIN table THEN table[key] ELSE Zero


\* ------------------------------------------------------- frequency models

\* Counter.update(set(word)) over all words, counting occurrences instead
\* of presence (set() dropped).
WordCounter_occurrences(ws) ==
    LET seen == UNION { LetterSet(ws[k]) : k \in 1..Len(ws) }
    IN  [c \in seen |->
            Cardinality({ <<k, i>> \in (1..Len(ws)) \X (1..WordLen) :
                            i <= Len(ws[k]) /\ ws[k][i] = c })]

\* The counter WordStats fills: for each letter, the number of words that
\* hold it at least once.  Only letters that were counted are keys.
WordCounter(ws) ==
    LET seen == UNION { LetterSet(ws[k]) : k \in 1..Len(ws) }
    IN  [c \in seen |-> Cardinality({ k \in 1..Len(ws) : c \in LetterSet(ws[k]) })]

\* {key: value / norm for key, value in counter.most_common()}: no
\* division takes place when the counter is empty.
normalize_counter(counter, norm) ==
    [key \in DOMAIN counter |-> Frac(counter[key], norm)]

WordStats(ws) == [overall |-> normalize_counter(WordCounter(ws), Len(ws))]

\* The number of keys of the defaultdict of per-index counters: the indices
\* enumerate() produced, in the order they were first seen.
IndexCount(ws) ==
    IF ws = <<>> THEN 0
    ELSE LET lens == { Len(ws[k]) : k \in 1..Len(ws) }
         IN  CHOOSE m \in lens : \A l \in lens : l <= m

\* The counter of one index: for each letter seen there, the number of
\* words that hold it there.
IndexCounter(ws, i) ==
    LET at == { k \in 1..Len(ws) : i <= Len(ws[k]) }
    IN  [c \in { ws[k][i] : k \in at } |->
            Cardinality({ k \in at : ws[k][i] = c })]

\* Each per-index counter normalised by its number of keys instead of by
\* the number of words.
PositionalWordStats_keynorm(ws) ==
    [overall    |-> WordStats(ws).overall,
     positional |-> [i \in 1..IndexCount(ws) |->
                        normalize_counter(IndexCounter(ws, i),
                                          Cardinality(DOMAIN IndexCounter(ws, i)))]]

PositionalWordStats(ws) ==
    [overall    |-> WordStats(ws).overall,
     positional |-> [i \in 1..IndexCount(ws) |->
                        normalize_counter(IndexCounter(ws, i), Len(ws))]]

\* ----------------------------------------------------------------- scorers

\* What a call produces: a value, or the exception it raised.
Returned(v) == [error |-> "none", value |-> v]

Raised(e) == [error |-> e, value |-> Zero]

RECURSIVE FSum(_, _)
\* The sum of term[x] over the set S.
FSum(term, S) ==
    IF S = {} THEN Zero
    ELSE LET x == CHOOSE y \in S : TRUE
         IN  FAdd(term[x], FSum(term, S \ {x}))

RECURSIVE FMaxOver(_, _)
\* max() of term[i] over the non-empty set S.
FMaxOver(term, S) ==
    LET x == CHOOSE y \in S : TRUE
    IN  IF S = {x} THEN term[x] ELSE FMax(term[x], FMaxOver(term, S \ {x}))

\* gray: (1.0 - f) * f
Gray(f) == FMul(FSub(One, f), f)

\* yellow: (f - p) * (1.0 - f + p)
Yellow(f, p) == FMul(FSub(f, p), FAdd(FSub(One, f), p))

\* green: p * (1.0 - p)
Green(p) == FMul(p, FSub(One, p))

\* GuessScorer.score: over the distinct letters of the guess, a + b with
\* a = (1 - f) f and b = f (1 - f); divided by len(guess).
GuessScorer_score(stats, w) ==
    LET f(c)  == Get(stats.overall, c)
        a(c)  == Gray(f(c))
        b(c)  == FMul(f(c), FSub(One, f(c)))
        bad   == { c \in LetterSet(w) : ~FLe(Zero, a(c)) \/ ~FLe(Zero, b(c)) }
        term  == [c \in LetterSet(w) |-> FAdd(a(c), b(c))]
    IN  IF bad # {} THEN Raised("AssertionError")
        ELSE IF Len(w) = 0 THEN Raised("ZeroDivisionError")
        ELSE Returned(FDivInt(FSum(term, LetterSet(w)), Len(w)))

\* PositionalGuessScorer.score: per position the three outcomes a, b, c;
\* per distinct letter the best a, the best b and the best c over its
\* occurrences; divided by len(word).
PositionalGuessScorer_score(stats, w) ==
    LET f(i)  == Get(stats.overall, w[i])
        p(i)  == Get(stats.positional[i], w[i])
        a(i)  == Gray(f(i))
        b(i)  == Yellow(f(i), p(i))
        c(i)  == Green(p(i))
        noTab == { i \in 1..Len(w) : i > Len(stats.positional) }
        bad   == { i \in (1..Len(w)) \ noTab :
                     ~FLe(Zero, a(i)) \/ ~FLe(Zero, b(i)) \/ ~FLe(Zero, c(i)) }
        occ(l) == { i \in 1..Len(w) : w[i] = l }
        term  == [l \in LetterSet(w) |->
                    FAdd(FAdd(FMaxOver([i \in occ(l) |-> a(i)], occ(l)),
                              FMaxOver([i \in occ(l) |-> b(i)], occ(l))),
                         FMaxOver([i \in occ(l) |-> c(i)], occ(l)))]
        first(S) == CHOOSE i \in S : \A j \in S : i <= j
    IN  IF noTab # {} /\ (bad = {} \/ first(noTab) < first(bad))
        THEN Raised("IndexError")
        ELSE IF bad # {} THEN Raised("AssertionError")
        ELSE IF Len(w) = 0 THEN Raised("ZeroDivisionError")
        ELSE Returned(FDivInt(FSum(term, LetterSet(w)), Len(w)))

RECURSIVE FProduct(_, _, _)
FProduct(stats, w, i) ==
    IF i > Len(w) THEN One
    ELSE FMul(Get(stats.positional[i], w[i]), FProduct(stats, w, i + 1))

\* MatchingGuessScorer.score: the product over the positions of the
\* positional probability of the word's letter there.
MatchingGuessScorer_score(stats, w) ==
    IF \E i \in 1..Len(w) : i > Len(stats.positional)
    THEN Raised("IndexError")
    ELSE Returned(FProduct(stats, w, 1))

Scorers == {"GuessScorer", "PositionalGuessScorer", "MatchingGuessScorer"}

\* scorer.score(guess) for the scorer class chosen.
score(Scorer, stats, w) ==
    CASE Scorer = "GuessScorer"           -> GuessScorer_score(stats, w)
      [] Scorer = "PositionalGuessScorer" -> PositionalGuessScorer_score(stats, w)
      [] Scorer = "MatchingGuessScorer"   -> MatchingGuessScorer_score(stats, w)

RECURSIVE InsertByScore(_, _)
\* One step of the stable descending sort: item goes after every item
\* whose score is not smaller.
InsertByScore(sorted, item) ==
    IF sorted = <<>> THEN <<item>>
    ELSE IF FLe(item[2], Head(sorted)[2])
         THEN <<Head(sorted)>> \o InsertByScore(Tail(sorted), item)
         ELSE <<item>> \o sorted

RECURSIVE SortedByScore(_, _)
SortedByScore(items, k) ==
    IF k = 0 THEN <<>>
    ELSE InsertByScore(SortedByScore(items, k - 1), items[k])

\* score_dict: the (guess, score) items sorted by score, descending and
\* stable; the first exception of a score call ends it.
score_dict(Scorer, stats, guesses) ==
    LET outs   == [k \in 1..Len(guesses) |-> score(Scorer, stats, guesses[k])]
        failed == { k \in 1..Len(guesses) : outs[k].error # "none" }
        items  == [k \in 1..Len(guesses) |-> <<guesses[k], outs[k].value>>]
    IN  IF failed # {}
        THEN [error |-> outs[CHOOSE k \in failed : \A j \in failed : k <= j].error,
              value |-> <<>>]
        ELSE [error |-> "none", value |-> SortedByScore(items, Len(items))]

\* ----------------------------------------------------------------- matcher

NoError == [type |-> "none", guess |-> <<>>, state |-> "", position |-> 0]

\* ValueError(f"Unknown response for {guess}: {state} at position {i}")
ValueError(g, state, i) ==
    [type |-> "ValueError", guess |-> g, state |-> state, position |-> i]

EmptyMatcher ==
    [bad_set |-> {}, good_set |-> {}, bad_dict |-> <<>>, good_dict |-> <<>>]

\* dict[key] = value
Put(dict, key, value) ==
    [k \in (DOMAIN dict) \cup {key} |-> IF k = key THEN value ELSE dict[k]]

\* zip(guess, response) stops at the end of the shorter of the two.
ZipLen(g, r) == Min(Len(g), Len(r))

\* Matcher.__init__ reading "+" as the letter required at its position and
\* "!" as the letter present elsewhere.
RECURSIVE MatcherLoop_swapped(_, _, _, _)
MatcherLoop_swapped(g, r, k, m) ==
    IF k > ZipLen(g, r) THEN [error |-> NoError, matcher |-> m]
    ELSE CASE r[k] = "!" ->
                MatcherLoop_swapped(g, r, k + 1,
                    [m EXCEPT !.good_set = @ \cup {g[k]},
                              !.bad_dict = Put(@, k, g[k])])
           [] r[k] = "-" ->
                MatcherLoop_swapped(g, r, k + 1,
                    [m EXCEPT !.bad_set = @ \cup {g[k]}])
           [] r[k] = "+" ->
                MatcherLoop_swapped(g, r, k + 1,
                    [m EXCEPT !.good_dict = Put(@, k, g[k])])
           [] OTHER ->
                [error |-> ValueError(g, r[k], k - 1), matcher |-> EmptyMatcher]

Matcher_swapped(g, r) == MatcherLoop_swapped(g, r, 1, EmptyMatcher)

\* The loop of Matcher.__init__ from pair k on, m being the four
\* collections filled so far; it ends at the first unknown character.
RECURSIVE MatcherLoop(_, _, _, _)
MatcherLoop(g, r, k, m) ==
    IF k > ZipLen(g, r) THEN [error |-> NoError, matcher |-> m]
    ELSE CASE r[k] = "+" ->
                MatcherLoop(g, r, k + 1,
                    [m EXCEPT !.good_set = @ \cup {g[k]},
                              !.bad_dict = Put(@, k, g[k])])
           [] r[k] = "-" ->
                MatcherLoop(g, r, k + 1,
                    [m EXCEPT !.bad_set = @ \cup {g[k]}])
           [] r[k] = "!" ->
                MatcherLoop(g, r, k + 1,
                    [m EXCEPT !.good_dict = Put(@, k, g[k])])
           [] OTHER ->
                [error |-> ValueError(g, r[k], k - 1), matcher |-> EmptyMatcher]

\* Matcher(guess, response): the matcher built, or the error raised (and
\* then no matcher).
Matcher(g, r) == MatcherLoop(g, r, 1, EmptyMatcher)

\* Matcher.match with the test of the good_dict loop inverted.
match_inverted(m, word) ==
    /\ m.bad_set \cap LetterSet(word) = {}
    /\ m.good_set \subseteq LetterSet(word)
    /\ \A i \in DOMAIN m.good_dict : word[i] # m.good_dict[i]
    /\ \A i \in DOMAIN m.bad_dict : word[i] # m.bad_dict[i]

\* Matcher.match(word).  Every key of the two dicts is a position of the
\* guess, and guess and word have the same length, so word[i] is defined.
match(m, word) ==
    /\ m.bad_set \cap LetterSet(word) = {}
    /\ m.good_set \subseteq LetterSet(word)
    /\ \A i \in DOMAIN m.good_dict : word[i] = m.good_dict[i]
    /\ \A i \in DOMAIN m.bad_dict : word[i] # m.bad_dict[i]

RECURSIVE Select(_, _)
\* [word for word in words if matcher.match(word)]
Select(ws, m) ==
    IF ws = <<>> THEN <<>>
    ELSE IF match(m, Head(ws)) THEN <<Head(ws)>> \o Select(Tail(ws), m)
         ELSE Select(Tail(ws), m)

RECURSIVE SelectPrepending(_, _)
SelectPrepending(ws, m) ==
    IF ws = <<>> THEN <<>>
    ELSE IF match(m, Head(ws)) THEN SelectPrepending(Tail(ws), m) \o <<Head(ws)>>
         ELSE SelectPrepending(Tail(ws), m)

\* filter_words building its result with insert(0, word).
filter_words_prepending(ws, g, r) ==
    LET built == Matcher(g, r)
    IN  IF built.error.type # "none"
        THEN [error |-> built.error, matcher |-> built.matcher, value |-> <<>>]
        ELSE [error |-> NoError, matcher |-> built.matcher,
              value |-> SelectPrepending(ws, built.matcher)]

RECURSIVE RemoveWhileIterating(_, _, _)
\* for word in words: if not match(word): words.remove(word) -- the
\* iterator's index moves on after a removal, so the next word is skipped.
RemoveWhileIterating(ws, m, k) ==
    IF k > Len(ws) THEN ws
    ELSE IF match(m, ws[k]) THEN RemoveWhileIterating(ws, m, k + 1)
         ELSE RemoveWhileIterating(SubSeq(ws, 1, k - 1) \o SubSeq(ws, k + 1, Len(ws)),
                                   m, k + 1)

\* filter_words removing the rejected words from the list it iterates.
filter_words_removing(ws, g, r) ==
    LET built == Matcher(g, r)
    IN  IF built.error.type # "none"
        THEN [error |-> built.error, matcher |-> built.matcher, value |-> <<>>]
        ELSE [error |-> NoError, matcher |-> built.matcher,
              value |-> RemoveWhileIterating(ws, built.matcher, 1)]

\* filter_words(words, guess, response): the error Matcher raised, or the
\* matcher built and the words it accepts, in their order.
filter_words(ws, g, r) ==
    LET built == Matcher(g, r)
    IN  IF built.error.type # "none"
        THEN [error |-> built.error, matcher |-> built.matcher, value |-> <<>>]
        ELSE [error |-> NoError, matcher |-> built.matcher,
              value |-> Select(ws, built.matcher)]

\* ----------------------------------------------------------- state machine

VARIABLES
    words,           \* the list read_words returned
    possible_words,  \* the candidate list of main's loop
    pc,              \* main's next step: "score", "print", "filter"; or "raised"
    last,            \* the call that just ended: "none", "filter_words", "score_words"
    guess,           \* filter_words' arguments and its matcher
    response,
    matcher,
    Scorer,          \* score_words' scorer class, the model it built, its result
    stats,
    scores,
    err              \* the exception that ended the program

vars == <<words, possible_words, pc, last, guess, response, matcher,
          Scorer, stats, scores, err>>

NoStats == [overall |-> <<>>, positional |-> <<>>]

\* main: words = read_words(...); possible_words = words.
Init ==
    /\ words \in Corpora
    /\ possible_words = words
    /\ pc = "score"
    /\ last = "none"
    /\ guess = <<>>
    /\ response = <<>>
    /\ matcher = EmptyMatcher
    /\ Scorer = "none"
    /\ stats = NoStats
    /\ scores = <<>>
    /\ err = NoError

\* possible_words = filter_words(possible_words, guess, response)
FilterWords(g, r) ==
    /\ pc = "filter"
    /\ LET out == filter_words(possible_words, g, r)
       IN  /\ guess' = g
           /\ response' = r
           /\ matcher' = out.matcher
           /\ err' = out.error
           /\ pc' = IF out.error.type = "none" THEN "score" ELSE "raised"
           /\ possible_words' =
                 IF out.error.type = "none" THEN out.value ELSE possible_words
    /\ last' = "filter_words"
    /\ Scorer' = "none"
    /\ stats' = NoStats
    /\ scores' = <<>>
    /\ UNCHANGED words

\* print_scores: score_words(words, possible_words, Scorer).
ScoreWords(S) ==
    /\ pc = "score"
    /\ LET built == PositionalWordStats(possible_words)
           out   == score_dict(S, built, words)
       IN  /\ stats' = built
           /\ scores' = out.value
           /\ err' = IF out.error = "none" THEN NoError
                     ELSE [NoError EXCEPT !.type = out.error]
           /\ pc' = IF out.error = "none" THEN "print" ELSE "raised"
    /\ Scorer' = S
    /\ last' = "score_words"
    /\ guess' = <<>>
    /\ response' = <<>>
    /\ matcher' = EmptyMatcher
    /\ UNCHANGED <<words, possible_words>>

\* print_scores prints and returns: its score tables are dropped, and
\* main's loop takes its next (guess, response) pair.
PrintScores ==
    /\ pc = "print"
    /\ pc' = "filter"
    /\ last' = "none"
    /\ Scorer' = "none"
    /\ stats' = NoStats
    /\ scores' = <<>>
    /\ UNCHANGED <<words, possible_words, guess, response, matcher, err>>

Next ==
    \/ \E g \in Guesses(words), r \in Responses : FilterWords(g, r)
    \/ \E S \in Scorers : ScoreWords(S)
    \/ PrintScores

Spec == Init /\ [][Next]_vars

\* ------------------------------------------------------------- properties

\* filter_words has just returned a list.
Filtered == last = "filter_words" /\ err.type = "none"

\* score_words has just built its model from a non-empty candidate list.
ScoredNonEmpty == last = "score_words" /\ possible_words # <<>>

\* The response of length n that holds the character ch everywhere.
Uniform(ch, n) == [i \in 1..n |-> ch]

Tagged(r, ch) == { i \in 1..Len(r) : r[i] = ch }

RECURSIVE IsSubsequence(_, _)
\* a is b with some of its elements left out.
IsSubsequence(a, b) ==
    IF a = <<>> THEN TRUE
    ELSE IF b = <<>> THEN FALSE
    ELSE IF Head(a) = Head(b) THEN IsSubsequence(Tail(a), Tail(b))
    ELSE IsSubsequence(a, Tail(b))

\* The response a game gives to guess g when the secret is s: a position
\* match where the letters agree; otherwise misplaced while the secret has
\* occurrences of the letter left over from its position matches and the
\* earlier misplaced tags of that letter; otherwise absent.
TruthfulResponse(s, g) ==
    LET hits(c)  == Cardinality({ j \in 1..Len(g) : g[j] = c /\ s[j] = c })
        inS(c)   == Cardinality({ j \in 1..Len(s) : s[j] = c })
        before(i) == Cardinality({ j \in 1..(i - 1) : g[j] = g[i] /\ s[j] # g[j] })
    IN  [i \in 1..Len(g) |->
            IF g[i] = s[i] THEN "!"
            ELSE IF before(i) < inS(g[i]) - hits(g[i]) THEN "+"
            ELSE "-"]

\* C1 (as stated): the matcher built from a guess and the response that is
\* "+" at every position accepts the guess itself.
C1_AllPlusAcceptsGuess ==
    (last = "filter_words" /\ response = Uniform("+", Len(guess)))
        => (err.type = "none" /\ match(matcher, guess))

\* C1 (amended): the matcher built from a guess and the response that is
\* "!" at every position accepts the guess itself.
C1_AllBangAcceptsGuess ==
    (last = "filter_words" /\ response = Uniform("!", Len(guess)))
        => (err.type = "none" /\ match(matcher, guess))

C1_Witness ==
    /\ Filtered
    /\ Len(guess) >= 1
    /\ response = Uniform("!", Len(guess))
    /\ match(matcher, guess)
    /\ guess \in Guesses(possible_words)

\* The four conditions of C2 on word w, for the characters that stand for
\* Correct and for Present, and the tags whose letters must occur in w.
Accepts(g, r, w, correct, present, occurring) ==
    /\ \A i \in Tagged(r, "-") : g[i] \notin LetterSet(w)
    /\ \A i \in UNION { Tagged(r, ch) : ch \in occurring } : g[i] \in LetterSet(w)
    /\ \A i \in Tagged(r, correct) : w[i] = g[i]
    /\ \A i \in Tagged(r, present) : w[i] # g[i]

\* C2 (as stated): with "+" read as Correct and "!" as Present, match(w)
\* is true exactly when no Absent letter occurs in w, every Correct letter
\* occurs in w, w agrees with the guess at every Correct position and
\* differs from it at every Present position; the list filter_words
\* returns holds only words that agree with the guess at the "+" positions.
C2_MatchReadsPlusAsCorrect ==
    (Filtered /\ Len(response) = Len(guess)) =>
        /\ \A w \in AllWords :
              match(matcher, w) <=> Accepts(guess, response, w, "+", "!", {"+"})
        /\ \A k \in 1..Len(possible_words) : \A i \in Tagged(response, "+") :
              possible_words[k][i] = guess[i]

\* C2 (amended): the same with "!" read as Correct and "+" as Present, the
\* letters that must occur in w being those tagged Correct or Present.
C2_MatchReadsBangAsCorrect ==
    (Filtered /\ Len(response) = Len(guess)) =>
        /\ \A w \in AllWords :
              match(matcher, w) <=> Accepts(guess, response, w, "!", "+", {"!", "+"})
        /\ \A k \in 1..Len(possible_words) : \A i \in Tagged(response, "!") :
              possible_words[k][i] = guess[i]

C2_Witness ==
    /\ Filtered
    /\ Len(response) = Len(guess)
    /\ Tagged(response, "!") # {}
    /\ Tagged(response, "+") # {}
    /\ possible_words # <<>>
    /\ \E w \in AllWords : ~match(matcher, w)

\* C3: a guess and a response of different lengths make filter_words fail
\* with a LengthMismatch error, and no matcher filters the list.
C3_LengthMismatchRaises ==
    (last = "filter_words" /\ Len(response) # Len(guess))
        => (pc = "raised" /\ err.type = "LengthMismatch")

\* C4: building the frequency model from an empty candidate list fails
\* with an EmptyCorpus error, so no scorer runs on such a model.
C4_EmptyCorpusRaises ==
    (last = "score_words" /\ possible_words = <<>>)
        => (pc = "raised" /\ err.type = "EmptyCorpus")

\* C5: a response that holds anywhere a character other than "+", "!",
\* "-" makes filter_words fail with an error naming the guess and the
\* index of the first such character; any other response builds a matcher.
C5_UnknownCharacterRaises ==
    last = "filter_words" =>
        LET unknown == { i \in 1..Len(response) : response[i] \notin {"+", "!", "-"} }
        IN  IF unknown # {}
            THEN /\ pc = "raised"
                 /\ err.type = "ValueError"
                 /\ err.guess = guess
                 /\ err.position + 1 = CHOOSE i \in unknown : \A j \in unknown : i <= j
            ELSE err.type = "none"

\* C6: in the model built from a non-empty list of words of length L there
\* are exactly L positional tables, and for every position i and letter c
\* 0 <= positional[i][c] <= overall[c] <= 1.
C6_PositionalWithinOverall ==
    ScoredNonEmpty =>
        /\ Len(stats.positional) = WordLen
        /\ \A i \in 1..WordLen : \A c \in Letters :
              /\ FLe(Zero, Get(stats.positional[i], c))
              /\ FLe(Get(stats.positional[i], c), Get(stats.overall, c))
              /\ FLe(Get(stats.overall, c), One)

C6_Witness ==
    /\ ScoredNonEmpty
    /\ \E i \in 1..WordLen : \E c \in Letters :
          /\ ~FLe(Get(stats.positional[i], c), Zero)
          /\ ~FLe(Get(stats.overall, c), Get(stats.positional[i], c))
    /\ \E c \in Letters : ~FLe(One, Get(stats.overall, c))

\* C7: on the model built from a non-empty list, for every word of the
\* corpus length, in the list or not, GuessScorer.score and
\* PositionalGuessScorer.score fail no assertion and return a score >= 0;
\* score_words raises nothing.
C7_ScoresNonNegative ==
    ScoredNonEmpty =>
        /\ pc # "raised"
        /\ \A k \in 1..Len(scores) : FLe(Zero, scores[k][2])
        /\ \A w \in AllWords :
              /\ GuessScorer_score(stats, w).error = "none"
              /\ FLe(Zero, GuessScorer_score(stats, w).value)
              /\ PositionalGuessScorer_score(stats, w).error = "none"
              /\ FLe(Zero, PositionalGuessScorer_score(stats, w).value)

C7_Witness ==
    /\ ScoredNonEmpty
    /\ Scorer = "PositionalGuessScorer"
    /\ Len(scores) = Len(words)
    /\ \E k \in 1..Len(scores) : ~FLe(scores[k][2], Zero)
    /\ \E w \in AllWords \ Guesses(possible_words) :
          /\ ~FLe(PositionalGuessScorer_score(stats, w).value, Zero)
          /\ ~FLe(GuessScorer_score(stats, w).value, Zero)

\* C8: the candidate list is always a subsequence of the list read, every
\* step leaves it a subsequence of what it was (so its length never
\* grows), and the list read is never changed.
C8_FilterYieldsSubsequence ==
    /\ [](IsSubsequence(possible_words, words))
    /\ [][/\ IsSubsequence(possible_words', possible_words)
          /\ Len(possible_words') <= Len(possible_words)
          /\ words' = words]_vars

C8_Witness ==
    /\ Filtered
    /\ Len(words) >= 2
    /\ Len(possible_words) >= 1
    /\ Len(possible_words) < Len(words)

\* C9: filtering the list filter_words returned, with the same guess and
\* response, returns that list again.
C9_FilterIdempotent ==
    Filtered =>
        LET again == filter_words(possible_words, guess, response)
        IN  again.error.type = "none" /\ again.value = possible_words

C9_Witness ==
    /\ Filtered
    /\ possible_words # <<>>
    /\ Len(possible_words) < Len(words)
    /\ filter_words(possible_words, guess, response).value = possible_words

\* C10: the matcher built from a guess and the truthful response to it for
\* a secret accepts that secret.
C10_TruthfulResponseKeepsSecret ==
    Filtered =>
        \A s \in AllWords :
            response = TruthfulResponse(s, guess) => match(matcher, s)

=============================================================================
